---- MODULE Spec2Model ----
(***************************************************************************)
(* Model of the note store of src/src/app/page.tsx: the Home component's   *)
(* noteStore / isCreating state, the NoteEditor's local echo buffer, the   *)
(* three kinds of timers (editor debounce, creation cool-down, save        *)
(* debounce) and the localStorage entry under STORAGE_KEY.                 *)
(*                                                                         *)
(* Time is counted in ticks of 100 ms.  A handler (event handler, timer    *)
(* callback, mount) is one atomic step that includes the re-render and the *)
(* effects React runs after it.  Timestamps (toISOString) are the tick     *)
(* count; ids (generateId) are a fresh counter.                            *)
(***************************************************************************)
EXTENDS Integers, Sequences, FiniteSets

VARIABLES
    noteStore,      \* Home.noteStore: [notes, activeNoteId]
    isCreating,     \* Home.isCreating
    localContent,   \* NoteEditor.localContent
    storage,        \* localStorage[STORAGE_KEY]
    saveTimers,     \* pending setTimeout calls of debouncedSave
    editorTimers,   \* pending setTimeout calls of the debouncedUpdate instances
    cooldownTimers, \* pending setTimeout(() => setIsCreating(false), 300)
    now,            \* Date.now(), in ticks
    nextId,         \* the next id generateId returns
    phase,          \* "init" before the mount effects, "running", "crashed"
    writeFailed,    \* history: the last localStorage.setItem threw
    burst,          \* history: the current run of rapid content edits
    hist,           \* history: the user events so far, in order
    lastOp          \* history: the handler that ran last

vars == <<noteStore, isCreating, localContent, storage, saveTimers, editorTimers,
          cooldownTimers, now, nextId, phase, writeFailed, burst, hist, lastOp>>

----------------------------------------------------------------------------
(* Bounds of the model *)

MaxTime == 5
MaxIds == 2
MaxEditorTimers == 2
MaxBurst == 2
MaxOps == 3

(* Program constants, in ticks of 100 ms *)

EDITOR_WAIT == 1
COOLDOWN_WAIT == 3
SAVE_WAIT == 5

Null == 0
GhostId == MaxIds + 1
StoredId == MaxIds + 2
Contents == {"", "Hello", "World"}

EmptyStore == [notes |-> <<>>, activeNoteId |-> Null]

----------------------------------------------------------------------------
(* Pure helpers *)

NoteIds(notes) == {notes[i].id : i \in 1..Len(notes)}

HasNote(notes, id) == \E i \in 1..Len(notes) : notes[i].id = id

\* noteStore.notes.find(n => n.id === noteStore.activeNoteId)?.content || ''
NoteContent(s) ==
    IF HasNote(s.notes, s.activeNoteId)
    THEN LET i == CHOOSE i \in 1..Len(s.notes) :
                      /\ s.notes[i].id = s.activeNoteId
                      /\ \A j \in 1..(i-1) : s.notes[j].id # s.activeNoteId
         IN s.notes[i].content
    ELSE ""

\* The text of one note: the values of its keys in the order of the object.
StringifyNote(n) == <<n.id, n.content, n.createdAt, n.updatedAt>>

Stringify_DropsActive(data) ==
    [kind |-> "store",
     value |-> << [i \in 1..Len(data.notes) |-> StringifyNote(data.notes[i])],
                  <<>> >>]

\* JSON.stringify(data): the text of a store, the notes in their order and
\* then activeNoteId, which is the text null or a string.  kind is what
\* the hydration effect makes of the text.
Stringify(data) ==
    [kind |-> "store",
     value |-> << [i \in 1..Len(data.notes) |-> StringifyNote(data.notes[i])],
                  IF data.activeNoteId = Null THEN <<>>
                                              ELSE <<data.activeNoteId>> >>]

ParseNote(text) ==
    [id |-> text[1], content |-> text[2], createdAt |-> text[3],
     updatedAt |-> text[4]]

\* JSON.parse(stored) of the text of a store
Parse(text) ==
    [notes |-> [i \in 1..Len(text[1]) |-> ParseNote(text[1][i])],
     activeNoteId |-> IF text[2] = <<>> THEN Null ELSE text[2][1]]

StorageAbsent == [kind |-> "absent", value |-> <<>>]
StorageCorrupt == [kind |-> "corrupt", value |-> <<>>]
StorageOther == [kind |-> "other", value |-> <<>>]
StorageUnreadable == [kind |-> "unreadable", value |-> <<>>]

Debounce_NoClear(pending, t) == pending \cup {t}

Debounce_Leading(pending, t) == IF pending = {} THEN {t} ELSE pending

\* clearTimeout(timeout); timeout = setTimeout(...)
Debounce(pending, t) == {p \in pending : p.stale} \cup {t}

SaveTimer_Stale(data) == [due |-> now' + SAVE_WAIT, data |-> noteStore, stale |-> FALSE]

\* setTimeout(() => func(data), 500) of debouncedSave(noteStore)
SaveTimer(data) == [due |-> now' + SAVE_WAIT, data |-> data, stale |-> FALSE]

EditorTimer(value) ==
    [due |-> now + EDITOR_WAIT, cap |-> noteStore.activeNoteId, value |-> value,
     stale |-> FALSE]

\* A new debouncedUpdate instance replaces the old one (useMemo on
\* onContentChange, useCallback on noteStore.activeNoteId); the timers of the
\* old instances stay pending and can no longer be cleared.
Retire(pending) == {[p EXCEPT !.stale = TRUE] : p \in pending}

MapContent_Touch(notes, activeId, content, t) ==
    [i \in 1..Len(notes) |->
        IF notes[i].id = activeId
        THEN [notes[i] EXCEPT !.content = content, !.createdAt = t, !.updatedAt = t]
        ELSE notes[i]]

MapContent_Swapped(notes, activeId, content, t) ==
    [i \in 1..Len(notes) |->
        IF notes[i].id # activeId
        THEN [notes[i] EXCEPT !.content = content, !.updatedAt = t]
        ELSE notes[i]]

\* prev.notes.map(note => note.id === prev.activeNoteId
\*                          ? {...note, content, updatedAt: now} : note)
MapContent(notes, activeId, content, t) ==
    [i \in 1..Len(notes) |->
        IF notes[i].id = activeId
        THEN [notes[i] EXCEPT !.content = content, !.updatedAt = t]
        ELSE notes[i]]

\* prev.notes.filter(note => note.id !== id)
FilterNotes(notes, id) == SelectSeq(notes, LAMBDA n : n.id # id)

ActiveAfterDelete_Keep(activeId, id) == activeId

\* prev.activeNoteId === id ? null : prev.activeNoteId
ActiveAfterDelete(activeId, id) == IF activeId = id THEN Null ELSE activeId

\* {id: generateId(), content: '', createdAt: new Date().toISOString(),
\*  updatedAt: new Date().toISOString()}: t and u are the two clock reads
NewNote(id, t, u) == [id |-> id, content |-> "", createdAt |-> t, updatedAt |-> u]

\* What the second of two consecutive clock reads can return.
NextRead(t) == {t, t + 1}

Prepend_Append(note, notes) == notes \o <<note>>

\* [newNote, ...prev.notes]
Prepend(note, notes) == <<note>> \o notes

\* setNoteStore(prev => ({...prev, activeNoteId: id}))
ActiveAfterSelect(s, id) == id

NoBurst == [k |-> 0, writes |-> 0, content |-> "", good |-> TRUE]

Op(op, id, flag) == [op |-> op, id |-> id, flag |-> flag]

Event(op, id, value) == [op |-> op, id |-> id, value |-> value]

----------------------------------------------------------------------------
(* State left in localStorage by an earlier session, or by anything else  *)
(* that wrote the key.                                                    *)

StoredNote == [id |-> StoredId, content |-> "Hello", createdAt |-> 0, updatedAt |-> 0]

InitialStorage ==
    { StorageAbsent, StorageCorrupt, StorageOther, StorageUnreadable,
      Stringify([notes |-> <<StoredNote>>, activeNoteId |-> StoredId]),
      Stringify([notes |-> <<StoredNote>>, activeNoteId |-> GhostId]) }

Init ==
    /\ noteStore = EmptyStore
    /\ isCreating = FALSE
    /\ localContent = ""
    /\ storage \in InitialStorage
    /\ saveTimers = {}
    /\ editorTimers = {}
    /\ cooldownTimers = {}
    /\ now = 0
    /\ nextId = 1
    /\ phase = "init"
    /\ writeFailed = FALSE
    /\ burst = NoBurst
    /\ hist = <<>>
    /\ lastOp = Op("init", Null, FALSE)

----------------------------------------------------------------------------
(* The re-render after setNoteStore(s): the save effect debounces a write  *)
(* of s, a changed activeNoteId makes a new debouncedUpdate instance, and  *)
(* a changed content prop resets the editor's local echo.                  *)

SetNoteStore(s, ets) ==
    /\ noteStore' = s
    /\ saveTimers' = Debounce(saveTimers, SaveTimer(s))
    /\ editorTimers' = IF s.activeNoteId # noteStore.activeNoteId
                       THEN Retire(ets) ELSE ets
    /\ localContent' = IF NoteContent(s) # NoteContent(noteStore)
                       THEN NoteContent(s) ELSE localContent

\* A click or a keystroke reaches its handler while the component is mounted.
UserEvent(e) ==
    /\ phase = "running"
    /\ now <= MaxTime
    /\ Len(hist) < MaxOps
    /\ hist' = Append(hist, e)

HydrationOutcome_NoCatch(stored) ==
    CASE stored.kind = "unreadable" -> "throws"
      [] stored.kind = "absent" -> "default"
      [] stored.kind = "corrupt" -> "throws"
      [] stored.kind = "other" -> "crashed"
      [] stored.kind = "store" -> "hydrated"

\* The hydration effect on what localStorage holds:
\*   getItem throws, outside the try      -> the effect throws
\*   null (falsy)                         -> the default store stays
\*   text JSON.parse throws on, caught    -> the default store stays
\*   JSON without notes: setNoteStore(parsed), and the re-render throws
\*     on noteStore.notes.find           -> crashed
\*   a store: setNoteStore(parsed)        -> hydrated
HydrationOutcome(stored) ==
    CASE stored.kind = "unreadable" -> "throws"
      [] stored.kind = "absent" -> "default"
      [] stored.kind = "corrupt" -> "default"
      [] stored.kind = "other" -> "crashed"
      [] stored.kind = "store" -> "hydrated"

MountSaves_KeepsFirst(parsed) == Debounce(saveTimers, SaveTimer(EmptyStore))

\* The save effect runs for the default store at the mount and again after
\* the re-render with the hydrated store; the second call clears the
\* timeout of the first.
MountSaves(parsed) ==
    Debounce(Debounce(saveTimers, SaveTimer(EmptyStore)), SaveTimer(parsed))

\* Mount: the hydration effect, then the save effect for the initial store,
\* then the re-render with the hydrated store.  An effect that throws ends
\* the component's effects and unmounts it; a render that throws unmounts it
\* with the timer of the save effect left pending.
Mount ==
    /\ phase = "init"
    /\ UNCHANGED <<hist, now>>
    /\ IF HydrationOutcome(storage) = "hydrated"
       THEN /\ noteStore' = Parse(storage.value)
            /\ saveTimers' = MountSaves(Parse(storage.value))
            /\ localContent' = NoteContent(Parse(storage.value))
            /\ phase' = "running"
       ELSE /\ noteStore' = EmptyStore
            /\ saveTimers' = IF HydrationOutcome(storage) = "throws"
                             THEN saveTimers
                             ELSE Debounce(saveTimers, SaveTimer(EmptyStore))
            /\ localContent' = ""
            /\ phase' = IF HydrationOutcome(storage) = "default"
                        THEN "running" ELSE "crashed"
    /\ lastOp' = Op("mount", Null, storage.kind = "store")
    /\ UNCHANGED <<isCreating, storage, editorTimers, cooldownTimers, nextId,
                   writeFailed, burst>>

CreateBlocked_Never == FALSE

\* if (isCreating) return;
CreateBlocked == isCreating

createNewNote ==
    /\ UserEvent(Event(IF CreateBlocked THEN "createIgnored" ELSE "create", Null, ""))
    /\ IF CreateBlocked
       THEN /\ lastOp' = Op("createIgnored", Null, FALSE)
            /\ UNCHANGED <<noteStore, isCreating, localContent, saveTimers,
                           editorTimers, cooldownTimers, nextId, burst>>
            /\ UNCHANGED now
       ELSE /\ nextId <= MaxIds
            /\ isCreating' = TRUE
            /\ \E u \in NextRead(now) :
                  /\ now' = u
                  /\ SetNoteStore([notes |-> Prepend(NewNote(nextId, now, u),
                                                     noteStore.notes),
                                   activeNoteId |-> nextId], editorTimers)
            /\ cooldownTimers' = cooldownTimers \cup {[due |-> now' + COOLDOWN_WAIT]}
            /\ nextId' = nextId + 1
            /\ burst' = NoBurst
            /\ lastOp' = Op("create", nextId, TRUE)
    /\ UNCHANGED <<storage, phase, writeFailed>>

\* ids the presentation layer can hold: of a note made so far, or of none
KnownIds == (1..(nextId - 1)) \cup {GhostId, StoredId}

selectNote(id) ==
    /\ UserEvent(Event("select", id, ""))
    /\ UNCHANGED now
    /\ SetNoteStore([noteStore EXCEPT !.activeNoteId = ActiveAfterSelect(noteStore, id)],
                    editorTimers)
    /\ burst' = NoBurst
    /\ lastOp' = Op("select", id, HasNote(noteStore.notes, id))
    /\ UNCHANGED <<isCreating, storage, cooldownTimers, nextId, phase, writeFailed>>

deleteNote(id) ==
    /\ UserEvent(Event("delete", id, ""))
    /\ UNCHANGED now
    /\ SetNoteStore([notes |-> FilterNotes(noteStore.notes, id),
                     activeNoteId |-> ActiveAfterDelete(noteStore.activeNoteId, id)],
                    editorTimers)
    /\ burst' = NoBurst
    /\ lastOp' = Op("delete", id, HasNote(noteStore.notes, id))
    /\ UNCHANGED <<isCreating, storage, cooldownTimers, nextId, phase, writeFailed>>

\* NoteEditor.handleChange
handleChange(value) ==
    /\ UserEvent(Event("type", Null, value))
    /\ value # localContent
    /\ localContent' = value
    /\ editorTimers' = Debounce(editorTimers, EditorTimer(value))
    /\ Cardinality(editorTimers') <= MaxEditorTimers
    /\ lastOp' = Op("type", noteStore.activeNoteId, TRUE)
    /\ UNCHANGED <<noteStore, isCreating, storage, saveTimers, cooldownTimers, now,
                   nextId, phase, writeFailed, burst>>

\* The timer of a debouncedUpdate instance fires: updateCurrentNote(t.value)
\* of the render that made the instance.
updateCurrentNote(t) ==
    /\ t \in editorTimers
    /\ UNCHANGED <<hist, now>>
    /\ t.due <= now
    /\ IF t.cap = Null
       THEN /\ editorTimers' = editorTimers \ {t}
            /\ UNCHANGED <<noteStore, saveTimers, localContent, burst>>
       ELSE /\ SetNoteStore([noteStore EXCEPT !.notes =
                                MapContent(noteStore.notes, noteStore.activeNoteId,
                                           t.value, now)],
                            editorTimers \ {t})
            /\ burst' =
                 IF ~HasNote(noteStore.notes, noteStore.activeNoteId) THEN NoBurst
                 ELSE IF burst.k > 0 /\ saveTimers # {}
                 THEN [burst EXCEPT !.k = IF @ < MaxBurst THEN @ + 1 ELSE @,
                                    !.content = t.value]
                 ELSE [k |-> 1, writes |-> 0, content |-> t.value, good |-> TRUE]
    /\ lastOp' = Op("edit", noteStore.activeNoteId, t.cap # Null)
    /\ UNCHANGED <<isCreating, storage, cooldownTimers, nextId, phase, writeFailed>>

\* setTimeout(() => setIsCreating(false), 300) fires
CooldownFire(t) ==
    /\ t \in cooldownTimers
    /\ UNCHANGED hist
    /\ t.due <= now
    /\ cooldownTimers' = cooldownTimers \ {t}
    /\ isCreating' = FALSE
    /\ lastOp' = Op("cooldown", Null, TRUE)
    /\ UNCHANGED <<noteStore, localContent, storage, saveTimers, editorTimers, now,
                   nextId, phase, writeFailed, burst>>

\* The timer of debouncedSave fires: localStorage.setItem inside try/catch;
\* setItem can throw (quota), which leaves the entry as it was.
debouncedSave_Throws(t, ok) ==
    /\ t \in saveTimers
    /\ UNCHANGED hist
    /\ t.due <= now
    /\ saveTimers' = saveTimers \ {t}
    /\ storage' = IF ok THEN Stringify(t.data) ELSE storage
    /\ writeFailed' = ~ok
    /\ burst' = IF burst.k > 0
                THEN [burst EXCEPT
                        !.writes = IF @ < 2 THEN @ + 1 ELSE @,
                        !.good = /\ @
                                 /\ t.data = noteStore
                                 /\ HasNote(t.data.notes, t.data.activeNoteId)
                                 /\ NoteContent(t.data) = burst.content]
                ELSE burst
    /\ lastOp' = Op("save", Null, ok)
    /\ phase' = IF ok THEN phase ELSE "crashed"
    /\ UNCHANGED <<noteStore, isCreating, localContent, editorTimers, cooldownTimers,
                   now, nextId>>

debouncedSave(t, ok) ==
    /\ t \in saveTimers
    /\ UNCHANGED hist
    /\ t.due <= now
    /\ saveTimers' = saveTimers \ {t}
    /\ storage' = IF ok THEN Stringify(t.data) ELSE storage
    /\ writeFailed' = ~ok
    /\ burst' = IF burst.k > 0
                THEN [burst EXCEPT
                        !.writes = IF @ < 2 THEN @ + 1 ELSE @,
                        !.good = /\ @
                                 /\ t.data = noteStore
                                 /\ HasNote(t.data.notes, t.data.activeNoteId)
                                 /\ NoteContent(t.data) = burst.content]
                ELSE burst
    /\ lastOp' = Op("save", Null, ok)
    /\ UNCHANGED <<noteStore, isCreating, localContent, editorTimers, cooldownTimers,
                   now, nextId, phase>>

Due == {t.due : t \in saveTimers \cup editorTimers \cup cooldownTimers}

\* Time passes; a timer that is due fires before the clock moves on.
Tick ==
    /\ phase # "init"
    /\ UNCHANGED hist
    /\ now < MaxTime \/ Due # {}
    /\ \A d \in Due : d > now
    /\ now' = now + 1
    /\ lastOp' = Op("tick", Null, TRUE)
    /\ UNCHANGED <<noteStore, isCreating, localContent, storage, saveTimers,
                   editorTimers, cooldownTimers, nextId, phase, writeFailed, burst>>

Next ==
    \/ Mount
    \/ createNewNote
    \/ \E id \in KnownIds : selectNote(id)
    \/ \E id \in KnownIds : deleteNote(id)
    \/ \E value \in Contents : handleChange(value)
    \/ \E t \in editorTimers : updateCurrentNote(t)
    \/ \E t \in cooldownTimers : CooldownFire(t)
    \/ \E t \in saveTimers, ok \in BOOLEAN : debouncedSave(t, ok)
    \/ Tick

Spec == Init /\ [][Next]_vars

\* The browser runs every timer callback that is due and the clock never
\* stops; React runs the mount effects.
TimerFires ==
    \/ \E t \in editorTimers : updateCurrentNote(t)
    \/ \E t \in cooldownTimers : CooldownFire(t)
    \/ \E t \in saveTimers, ok \in BOOLEAN : debouncedSave(t, ok)

FairSpec == Spec /\ WF_vars(Mount) /\ WF_vars(TimerFires) /\ WF_vars(Tick)

----------------------------------------------------------------------------
(* Properties *)

Notes == noteStore.notes
Active == noteStore.activeNoteId

Holders(notes, id) == {i \in 1..Len(notes) : notes[i].id = id}

\* C1: whenever activeNoteId is not null, exactly one note of notes has
\* that id.
C1_ActiveNoteExists ==
    Active # Null => Cardinality(Holders(Notes, Active)) = 1

Synced == saveTimers = {} /\ (writeFailed \/ storage = Stringify(noteStore))

\* C2: after every mutation a write of the current store is pending, due
\* within the save window; when no write is pending the snapshot in the
\* backend is the current store unless the backend refused the last write;
\* and once the mutations stop that state is reached and kept.
C2_SnapshotFollowsStore ==
    /\ [](phase = "running" =>
            /\ saveTimers # {} =>
                  \E t \in saveTimers : t.data = noteStore /\ t.due <= now + SAVE_WAIT
            /\ saveTimers = {} => Synced)
    /\ <>[](phase = "running" => Synced)

C2_Witness ==
    /\ lastOp = Op("save", Null, TRUE)
    /\ saveTimers = {}
    /\ Len(hist) >= 2
    /\ Notes # <<>>
    /\ storage = Stringify(noteStore)

\* C3: a run of K content edits, each less than the save window after the
\* one before, is followed by exactly one write, made after the Kth edit and
\* holding the store with the Kth content; no write is left pending after it.
C3_BurstOneWrite ==
    burst.k >= 1 =>
        /\ burst.writes <= 1
        /\ burst.good
        /\ (saveTimers = {}) <=> (burst.writes = 1)

C3_Witness ==
    /\ burst.k = 2
    /\ burst.writes = 1
    /\ lastOp.op = "save"
    /\ NoteContent(noteStore) = burst.content

NewestFirst(notes) ==
    \A i, j \in 1..Len(notes) : i < j => notes[i].createdAt >= notes[j].createdAt

IdSeq(notes) == [i \in 1..Len(notes) |-> notes[i].id]

Creates == Cardinality({i \in 1..Len(hist) : hist[i].op = "create"})

OnlyCreatesOnEmpty ==
    /\ phase = "running"
    /\ ~HasNote(Notes, StoredId)
    /\ \A i \in 1..Len(hist) : hist[i].op # "delete"

\* C4: an accepted create puts the new note in front of the unchanged
\* previous notes and makes it active; no step other than a create, a delete
\* or the mount changes which notes there are or their order; the notes are
\* always newest first; after N accepted creates on the empty store and no
\* delete there are N notes, the Nth first, and the Nth is active right
\* after its create.
C4_CreatePrepends ==
    /\ [](phase = "running" => NewestFirst(Notes))
    /\ [](OnlyCreatesOnEmpty =>
            /\ IdSeq(Notes) = [i \in 1..Creates |-> Creates + 1 - i]
            /\ (hist # <<>> /\ hist[Len(hist)].op = "create") =>
                  Active = Creates)
    /\ [][/\ lastOp'.op = "create" =>
                /\ Len(Notes') = Len(Notes) + 1
                /\ Tail(Notes') = Notes
                /\ Head(Notes').id \notin NoteIds(Notes)
                /\ Active' = Head(Notes').id
          /\ lastOp'.op \notin {"create", "delete", "mount"} =>
                IdSeq(Notes') = IdSeq(Notes)]_vars

C4_Witness ==
    /\ lastOp.op = "create"
    /\ IdSeq(Notes) = <<2, 1>>
    /\ Active = 2
    /\ hist = <<Event("create", Null, ""), Event("create", Null, "")>>

SessionNotes == {i \in 1..Len(Notes) : Notes[i].id \in 1..MaxIds}

\* C5: a create request made while isCreating is true changes neither notes
\* nor activeNoteId, and two notes created in one session are at least a
\* cool-down apart.
C5_CooldownIgnoresCreate ==
    /\ [](\A i, j \in SessionNotes :
             i < j => Notes[i].createdAt - Notes[j].createdAt >= COOLDOWN_WAIT)
    /\ [][lastOp'.op \in {"create", "createIgnored"} /\ isCreating =>
              noteStore' = noteStore]_vars

C5_Witness ==
    /\ lastOp.op = "createIgnored"
    /\ isCreating
    /\ Len(Notes) = 1
    /\ cooldownTimers # {}

\* C6: after create A, edit "Hello", create B on the empty store, once the
\* editor's timers have fired, notes = [B, A], B is active, A holds "Hello",
\* B is empty and A.updatedAt > A.createdAt.
C6_CreateEditCreate ==
    /\ hist = <<Event("create", Null, ""), Event("type", Null, "Hello"),
                Event("create", Null, "")>>
    /\ ~HasNote(Notes, StoredId)
    /\ editorTimers = {}
    => /\ IdSeq(Notes) = <<2, 1>>
       /\ Active = 2
       /\ Notes[2].content = "Hello"
       /\ Notes[1].content = ""
       /\ Notes[2].updatedAt > Notes[2].createdAt

\* C7: updateCurrentNote called while activeNoteId is null leaves notes and
\* activeNoteId as they were.
C7_EditWithoutActive ==
    [][lastOp'.op = "edit" /\ Active = Null => noteStore' = noteStore]_vars

C7_Witness ==
    /\ lastOp = Op("edit", Null, TRUE)
    /\ Notes # <<>>

RemoveAt(notes, i) ==
    [j \in 1..(Len(notes) - 1) |-> IF j < i THEN notes[j] ELSE notes[j + 1]]

\* C8: deleteNote(id) for an id in notes removes that one note, keeps the
\* others and their order, and clears activeNoteId exactly when it was id.
C8_DeletePresent ==
    [][lastOp'.op = "delete" /\ HasNote(Notes, lastOp'.id) =>
          /\ \E i \in 1..Len(Notes) :
                /\ Notes[i].id = lastOp'.id
                /\ Notes' = RemoveAt(Notes, i)
          /\ Active' = IF Active = lastOp'.id THEN Null ELSE Active]_vars

C8_Witness ==
    /\ lastOp.op = "delete"
    /\ lastOp.flag
    /\ Active = Null
    /\ Len(Notes) = 1

\* C9: deleteNote(id) for an id no note has leaves notes and activeNoteId as
\* they were.
C9_DeleteMissing ==
    [][lastOp'.op = "delete" /\ ~HasNote(Notes, lastOp'.id) =>
          noteStore' = noteStore]_vars

\* C10: selectNote(id) makes id active when a note has that id, leaves
\* activeNoteId as it was when none has, and never changes notes.
C10_SelectExisting ==
    [][lastOp'.op = "select" =>
          /\ Notes' = Notes
          /\ Active' = IF HasNote(Notes, lastOp'.id) THEN lastOp'.id ELSE Active]_vars

\* C11: no step changes the createdAt of a note or lowers its updatedAt
\* (the clock never runs backwards), and updatedAt >= createdAt holds for
\* every note in every state.
C11_TimestampsMonotone ==
    /\ [](\A i \in 1..Len(Notes) : Notes[i].updatedAt >= Notes[i].createdAt)
    /\ [][/\ now' >= now
          /\ \A i \in 1..Len(Notes), j \in 1..Len(Notes') :
                Notes[i].id = Notes'[j].id =>
                   /\ Notes'[j].createdAt = Notes[i].createdAt
                   /\ Notes'[j].updatedAt >= Notes[i].updatedAt]_vars

C11_Witness ==
    /\ lastOp = Op("edit", Active, TRUE)
    /\ \E i \in 1..Len(Notes) :
          /\ Notes[i].id \in 1..MaxIds
          /\ Notes[i].id = Active
          /\ Notes[i].content # ""
          /\ Notes[i].updatedAt > Notes[i].createdAt
    /\ burst.k = 2

\* C12: with corrupted text in the backend the mount does not crash and
\* leaves the empty store, and a create request made next is accepted and
\* gives a store with exactly one note, which is active.
C12_CorruptFallsBack ==
    storage = StorageCorrupt =>
        /\ phase # "crashed"
        /\ lastOp.op = "mount" => noteStore = EmptyStore
        /\ (hist # <<>> /\ hist[1].op \in {"create", "createIgnored"}) =>
              hist[1].op = "create"
        /\ hist = <<Event("create", Null, "")>> =>
              /\ Len(Notes) = 1
              /\ Active = Notes[1].id
              /\ Active # Null

C12_Witness ==
    /\ storage = StorageCorrupt
    /\ lastOp.op = "create"
    /\ hist = <<Event("create", Null, "")>>
    /\ Len(Notes) = 1

\* C13: the mount replaces the default store only by a snapshot with the
\* store's shape; with JSON of another shape in the backend, or a backend
\* whose read throws, the store after the mount is the empty store and the
\* component has not crashed.
C13_HydrationValidates ==
    lastOp.op = "mount" =>
        /\ noteStore # EmptyStore => storage.kind = "store"
        /\ storage.kind \in {"other", "unreadable"} =>
              phase = "running" /\ noteStore = EmptyStore

\* C14: a write to the backend that fails leaves the store as it was and the
\* component in the phase it was in, as does every step after it, and the
\* create, select, edit and delete operations made while the last write
\* has failed still change the store: an accepted
\* create prepends a note and makes it active, select makes its id active,
\* an edit with an active note sets its content to the typed text, delete
\* removes the note.
C14_WriteFailureHarmless ==
    [][/\ (lastOp'.op = "save" /\ saveTimers' # saveTimers) =>
             /\ noteStore' = noteStore
             /\ phase' = phase
             /\ isCreating' = isCreating
             /\ localContent' = localContent
       /\ writeFailed =>
             /\ phase' = phase
             /\ lastOp'.op = "create" =>
                   /\ Len(Notes') = Len(Notes) + 1
                   /\ Active' = Notes'[1].id
                   /\ Notes'[1].content = ""
             /\ lastOp'.op = "select" => Active' = lastOp'.id
             /\ lastOp'.op = "delete" => ~HasNote(Notes', lastOp'.id)
             /\ (lastOp' = Op("edit", Active, TRUE) /\ HasNote(Notes, Active)) =>
                   \E t \in editorTimers \ editorTimers' :
                      NoteContent(noteStore') = t.value]_vars

C14_Witness ==
    /\ writeFailed
    /\ storage = StorageAbsent
    /\ now < 2 * SAVE_WAIT
    /\ lastOp = Op("edit", Active, TRUE)
    /\ Len(Notes) = 1
    /\ Notes[1].createdAt >= SAVE_WAIT
    /\ Notes[1].content # ""

C16_OnePendingWrite ==
    /\ [](/\ Cardinality(saveTimers) <= 1
          /\ \A t \in saveTimers : t.data = noteStore)
    /\ [][noteStore' # noteStore =>
             saveTimers' = {[due |-> now' + SAVE_WAIT, data |-> noteStore',
                             stale |-> FALSE]}]_vars

C16_Witness ==
    /\ storage = StorageAbsent
    /\ Len(hist) = 3
    /\ Len(Notes) = 2
    /\ lastOp.op = "create"
    /\ now > 0
    /\ \E t \in saveTimers : t.due = now + SAVE_WAIT /\ t.data = noteStore

\* C17: right after an accepted create the new note, the first of notes,
\* has the empty content and createdAt equal to updatedAt.
C17_NewNoteFresh ==
    lastOp.op = "create" =>
        /\ Notes # <<>>
        /\ Notes[1].id = Active
        /\ Notes[1].content = ""
        /\ Notes[1].createdAt = Notes[1].updatedAt

\* C18: the timer of text typed while note X was active, when it fires,
\* changes the content of no note other than X, whatever select, create or
\* delete came in between.
C18_TypedTextStaysInNote ==
    [][lastOp'.op = "edit" =>
          \A t \in editorTimers \ editorTimers' :
             \A i \in 1..Len(Notes) :
                Notes[i].id # t.cap =>
                   /\ Len(Notes') = Len(Notes)
                   /\ Notes'[i].content = Notes[i].content]_vars

ValidSnapshots == {st \in InitialStorage : HydrationOutcome(st) = "hydrated"}

\* C19: in a session that starts with a valid snapshot in the backend, the
\* write scheduled for the default store is never made: the only write
\* pending after the mount holds the hydrated store, the snapshot stays in
\* the backend until a user event has changed the store, and what replaces
\* it is the text of the store in memory.
C19_NoEmptyOverwrite ==
    /\ []((lastOp.op = "mount" /\ storage \in ValidSnapshots) =>
             /\ noteStore = Parse(storage.value)
             /\ saveTimers # {}
             /\ \A t \in saveTimers : t.data = Parse(storage.value))
    /\ []((phase = "running" /\ hist = <<>> /\ noteStore # EmptyStore) =>
             storage = Stringify(noteStore))
    /\ [][(storage \in ValidSnapshots /\ storage' # storage) =>
             /\ hist # <<>>
             /\ storage' = Stringify(noteStore)]_vars

C19_Witness ==
    /\ lastOp = Op("save", Null, TRUE)
    /\ hist = <<>>
    /\ now >= SAVE_WAIT
    /\ saveTimers = {}
    /\ storage \in ValidSnapshots
    /\ HasNote(Notes, StoredId)

Quiescent == editorTimers = {} /\ cooldownTimers = {} /\ saveTimers = {}

\* C20: once every timer has fired, the text the editor shows is the
\* content of the active note, or the empty string when no note is active.
C20_EchoConverges ==
    (phase = "running" /\ Quiescent) => localContent = NoteContent(noteStore)

====
